---- MODULE Spec2Model ----
(***************************************************************************)
(* Model of src/components/ClayLakeCanvas.tsx: the mount effect of the     *)
(* ClayLakeCanvas component (canvas creation, resize(), the ResizeObserver,*)
(* the requestAnimationFrame loop and the effect cleanup) and the          *)
(* per-frame pose computation of drawFishAndEagle.                         *)
(*                                                                         *)
(* Numbers.  The source computes in IEEE doubles; the model computes in    *)
(* fixed point on integers:                                                *)
(*   - normalized time t is counted in units of 1/LoopMs (one unit is one  *)
(*     millisecond of the loop), so every phase threshold 0.14, 0.30, ...  *)
(*     is an integer and the comparisons t < threshold are exact;          *)
(*   - dimensionless values (local progress k, eases, sines, coefficients) *)
(*     are counted in units of 1/FP;                                       *)
(*   - positions, scales and rotations, being products of two such values, *)
(*     are counted in units of 1/U, U = FP * FP (micro-pixels, millionths, *)
(*     micro-radians);                                                     *)
(*   - logical sizes are whole pixels (the source floors them), container  *)
(*     rectangles are counted in half pixels and the device pixel ratio in *)
(*     quarters, so flooring is visible.                                   *)
(* Math.sin is modelled by Bhaskara's rational approximation.              *)
(***************************************************************************)
EXTENDS Integers, Sequences, FiniteSets, TLC

VARIABLES
    mounted,      \* the effect has run and its matching unmount has not
    ctx,          \* canvas.getContext('2d') was non-null in the latest mount
    canvas,       \* id of the canvas element created by the latest mount (0: none)
    children,     \* canvas elements that are children of the container div
    width,        \* closure variable `width` (logical pixels)
    height,       \* closure variable `height`
    canvasW,      \* canvas.width (backing store) of the latest canvas
    canvasH,      \* canvas.height
    styleW,       \* canvas.style.width in px (0: unset)
    styleH,       \* canvas.style.height in px
    transform,    \* scale of ctx's transform, in quarters (4: identity)
    devicePixelRatio, \* window.devicePixelRatio read by the latest resize(), in quarters (0: falsy)
    observing,    \* the ResizeObserver is observing the container
    pending,      \* handles in the browser's animation-frame callback list
    rafRef,       \* rafRef.current (0: null)
    nextHandle,   \* the handle the next requestAnimationFrame call returns
    frame,        \* what the latest executed renderFrame painted
    error         \* an exception escaped the effect

vars == <<mounted, ctx, canvas, children, width, height, canvasW, canvasH,
          styleW, styleH, transform, devicePixelRatio, observing, pending,
          rafRef, nextHandle, frame, error>>

surface == <<width, height, canvasW, canvasH, styleW, styleH, transform, devicePixelRatio>>

-----------------------------------------------------------------------------
(* Bounds of the model *)

\* requestAnimationFrame is called at most this many times in a behaviour
MaxHandle == 4

\* the effect is mounted at most this many times in a behaviour
MaxMounts == 2

\* frame timestamps are taken on a grid of TimeStep ms, ticks 0..MaxTick,
\* together with the phase boundaries (see Times)
MaxTick == 8

TimeStep == 1500

-----------------------------------------------------------------------------
(* Units *)

FP == 10 ^ 3

U == FP * FP

LOOP_SECONDS == 12

MsPerSecond == 1000

\* length of the loop in ms; also the denominator of normalized time
LoopMs == LOOP_SECONDS * MsPerSecond

\* a two-decimal fraction of the loop, e.g. Frac(14) is t = 0.14
Frac(c) == (c * LoopMs) \div 100

\* Math.PI and Math.PI * 2 in units of 1/FP
Pi == 3142

TwoPi == 2 * Pi

Min(a, b) == IF a < b THEN a ELSE b

Max(a, b) == IF a > b THEN a ELSE b

-----------------------------------------------------------------------------
(* Pure helpers *)

\* Math.sin on [0, pi], Bhaskara: 16 x (pi - x) / (5 pi^2 - 4 x (pi - x))
SinHalf(y) ==
    LET p == y * (Pi - y)
    IN  (4 * p) \div ((((5 * Pi * Pi) \div 4) - p) \div FP)

\* Math.sin(x) for x >= 0, x and the result in units of 1/FP
Sin(x) ==
    LET y == x % TwoPi
    IN  IF y <= Pi THEN SinHalf(y) ELSE 0 - SinHalf(y - Pi)

\* easeInOutQuad(t), t and the result in units of 1/FP
easeInOutQuad(t) ==
    IF 2 * t < FP THEN (2 * t * t) \div FP
    ELSE ((4 * FP - 2 * t) * t) \div FP - FP

clamp(v, lo, hi) == Max(lo, Min(hi, v))

\* smoothstep(edge0, edge1, x), all in units of 1/FP
smoothstep(edge0, edge1, x) ==
    LET t == clamp(((x - edge0) * FP) \div (edge1 - edge0), 0, FP)
    IN  (t * t * (3 * FP - 2 * t)) \div U

\* tNorm = ((timeMs / 1000) % LOOP_SECONDS) / LOOP_SECONDS, in units of 1/LoopMs
TNorm(timeMs) == timeMs % LoopMs

-----------------------------------------------------------------------------
(* drawFishAndEagle: the phase table *)

\* Key phases, in units of 1/LoopMs
riseStart == Frac(0)

riseEnd == Frac(14)

hoverEnd == Frac(30)

swoopEnd == Frac(50)

struggleEnd == Frac(66)

fallEnd == Frac(80)

underwaterEnd == Frac(90)

resetEnd == Frac(100)

\* a variant of the chain whose swoop test is inclusive on the right
PhaseInclusiveSwoop(t) ==
    IF t < riseEnd THEN "rise"
    ELSE IF t < hoverEnd THEN "hover"
    ELSE IF t <= swoopEnd THEN "swoop"
    ELSE IF t < struggleEnd THEN "struggle"
    ELSE IF t < fallEnd THEN "fall"
    ELSE IF t < underwaterEnd THEN "submerge"
    ELSE IF t <= resetEnd THEN "reset"
    ELSE "none"

\* the if / else-if chain: the branch that runs at normalized time t
Phase(t) ==
    IF t < riseEnd THEN "rise"
    ELSE IF t < hoverEnd THEN "hover"
    ELSE IF t < swoopEnd THEN "swoop"
    ELSE IF t < struggleEnd THEN "struggle"
    ELSE IF t < fallEnd THEN "fall"
    ELSE IF t < underwaterEnd THEN "submerge"
    ELSE IF t <= resetEnd THEN "reset"
    ELSE "none"

\* local progress k = (t - from) / (to - from), in units of 1/FP
Progress(t, from, to) == ((t - from) * FP) \div (to - from)

\* a variant of WaterTop with a fixed 12 px margin: height * 0.6 + 12
WaterTopPixelMargin(h) == h * 600 * FP + 12 * U

\* const waterTop = height * 0.62
WaterTop(h) == h * 620 * FP

fishStartX(w) == w * 500 * FP

\* const fishStartY = waterTop - 10
fishStartY(h) == WaterTop(h) - 10 * U

\* the eagle's variables as declared, before any branch runs
EagleInit(w, h) ==
    [visible |-> FALSE, x |-> w * 500 * FP, y |-> 0 - h * 120 * FP, rotation |-> 400 * FP]

\* eagleVisible, eagleX, eagleY, eagleRotation after the chain (units of 1/U)
EaglePose(w, h, t) ==
    LET ph == Phase(t)
        e0 == EagleInit(w, h)
    IN  IF ph = "swoop" THEN
            LET k == Progress(t, hoverEnd, swoopEnd)
                swoopEase == easeInOutQuad(k)
            IN  [visible |-> TRUE,
                 x |-> w * (100 * FP + 800 * swoopEase),
                 y |-> h * (550 * swoopEase - 150 * FP),
                 rotation |-> 600 * FP - 900 * swoopEase]
        ELSE IF ph = "struggle" THEN
            LET k == Progress(t, swoopEnd, struggleEnd)
            IN  [visible |-> TRUE,
                 x |-> w * 900 * FP - k * w * 150,
                 y |-> h * 400 * FP - Sin(k * 6) * 10 * FP,
                 rotation |-> Sin(k * 8) * 80 - 300 * FP]
        ELSE IF ph = "fall" THEN
            LET k == Progress(t, struggleEnd, fallEnd)
            IN  [visible |-> TRUE,
                 x |-> w * 750 * FP - k * w * 50,
                 y |-> h * 350 * FP - Sin(k * 10) * 6 * FP,
                 rotation |-> 0 - 200 * FP]
        ELSE e0

\* the fish's variables as declared, before any branch runs
FishInit(w, h) ==
    [visible |-> TRUE, x |-> fishStartX(w), y |-> fishStartY(h),
     scaleX |-> U, scaleY |-> U, rotation |-> 0]

\* the body of one branch of the chain, for the fish
FishBranch(ph, w, h, t, splash) ==
    LET f0 == FishInit(w, h)
    IN  IF ph = "rise" THEN
            LET k == easeInOutQuad(Progress(t, riseStart, riseEnd))
            IN  [f0 EXCEPT !.y = fishStartY(h) - k * 16 * FP,
                           !.scaleX = 1020 * FP - k * 40,
                           !.scaleY = 980 * FP + k * 40]
        ELSE IF ph = "hover" THEN
            LET k == Progress(t, riseEnd, hoverEnd)
            IN  [f0 EXCEPT !.y = fishStartY(h) - 16 * U + Sin((k * TwoPi) \div FP) * 2 * FP]
        ELSE IF ph = "swoop" THEN
            LET k == Progress(t, hoverEnd, swoopEnd)
            IN  [f0 EXCEPT !.y = fishStartY(h) - 16 * U - smoothstep(600, FP, k) * 50 * FP,
                           !.scaleX = U + Sin(k * 18) * 70,
                           !.scaleY = U - Sin(k * 18) * 70,
                           !.rotation = Sin(k * 6) * 150]
        ELSE IF ph = "struggle" THEN
            LET k == Progress(t, swoopEnd, struggleEnd)
            IN  [f0 EXCEPT !.y = h * 400 * FP + Sin(k * 16) * 12 * FP,
                           !.x = EaglePose(w, h, t).x - 20 * U,
                           !.scaleX = U + Sin(k * 24) * 120,
                           !.scaleY = U - Sin(k * 24) * 120,
                           !.rotation = Sin(k * 20) * 450]
        ELSE IF ph = "fall" THEN
            LET k == Progress(t, struggleEnd, fallEnd)
                fallEase == (k * k) \div FP
            IN  [f0 EXCEPT !.visible = TRUE,
                           !.x = w * 550 * FP + Sin(k * 10) * 14 * FP,
                           !.y = h * 400 * FP
                                 + fallEase * ((WaterTop(h) - h * 400 * FP) \div FP),
                           !.scaleX = U + Sin(k * 30) * 100,
                           !.scaleY = U - Sin(k * 30) * 100,
                           !.rotation = 600 * FP + Sin(k * 18) * 250]
        ELSE IF ph = "submerge" THEN
            LET k == Progress(t, fallEnd, underwaterEnd)
            IN  [f0 EXCEPT !.visible = (k < splash),
                           !.y = WaterTop(h) + 20 * k * FP]
        ELSE IF ph = "reset" THEN
            LET k == Progress(t, underwaterEnd, resetEnd)
                backEase == easeInOutQuad(FP - k)
            IN  [f0 EXCEPT !.visible = TRUE,
                           !.x = fishStartX(w),
                           !.y = fishStartY(h) - backEase * 0,
                           !.scaleX = U,
                           !.scaleY = U,
                           !.rotation = 0]
        ELSE f0

\* a variant of FishPose whose splash window is the first half of submerge
FishPoseLongSplash(w, h, t) == FishBranch(Phase(t), w, h, t, 500)

\* fishVisible, fishX, fishY, fishScaleX, fishScaleY, fishRotation after the
\* chain (units of 1/U); `fishVisible = k < 0.15` in submerge
FishPose(w, h, t) == FishBranch(Phase(t), w, h, t, 150)

\* drawFishRipples' phase argument (t * 7) % 1, in units of 1/FP
RipplePhase(t) == (((7 * t) % LoopMs) * FP) \div LoopMs

\* drawFishRipples: r = 12 + i * 10 + sin(phase * 2 pi) * 1.5 of ring i
\* (the ellipse has radii 2 r and r), in units of 1/U
FishRippleR(phase, i) == (12 + i * 10) * U + Sin((phase * TwoPi) \div FP) * 1500

\* drawWater: y = waterTop + i * 12, the centre line of ripple stroke i
RippleCentre(h, i) == WaterTop(h) + i * 12 * U

\* drawFish: bodyW = min(width, height) * 0.10
bodyW(w, h) == Min(w, h) * 100 * FP

\* drawEagle: size = min(width, height) * 0.14
eagleSize(w, h) == Min(w, h) * 140 * FP

Call(op, args) == [op |-> op, args |-> args]

\* a variant of DrawFishAndEagle that draws the eagle without testing eagleVisible
DrawFishAndEagleUnguarded(w, h, t) ==
    LET f == FishPose(w, h, t)
        e == EaglePose(w, h, t)
    IN  (IF f.visible
         THEN <<Call("drawFish", <<f.x, f.y, f.scaleX, f.scaleY, f.rotation>>),
                Call("drawFishRipples", <<f.x, WaterTop(h), RipplePhase(t)>>)>>
         ELSE <<>>)
        \o
        <<Call("drawEagle", <<e.x, e.y, e.rotation>>)>>

\* the calls drawFishAndEagle makes: the fish and its ripples if fishVisible,
\* then the eagle if eagleVisible
DrawFishAndEagle(w, h, t) ==
    LET f == FishPose(w, h, t)
        e == EaglePose(w, h, t)
    IN  (IF f.visible
         THEN <<Call("drawFish", <<f.x, f.y, f.scaleX, f.scaleY, f.rotation>>),
                Call("drawFishRipples", <<f.x, WaterTop(h), RipplePhase(t)>>)>>
         ELSE <<>>)
        \o
        (IF e.visible
         THEN <<Call("drawEagle", <<e.x, e.y, e.rotation>>)>>
         ELSE <<>>)

-----------------------------------------------------------------------------
(* Inputs *)

\* container rectangles (width, height) in half pixels: empty, and a portrait
\* and a landscape phone-sized box with fractional sides (361.5 x 640.5)
Rects == {<<0, 0>>, <<723, 1281>>, <<1281, 723>>}

\* window.devicePixelRatio in quarters: falsy, 1, 1.5, 3
Ratios == {0, 4, 6, 12}

\* frame timestamps in ms: a grid that runs past one loop, each phase
\* boundary and the millisecond before it, and the end of the splash window
Boundaries ==
    {riseEnd, hoverEnd, swoopEnd, struggleEnd, fallEnd, underwaterEnd, resetEnd,
     fallEnd + (15 * (underwaterEnd - fallEnd)) \div 100}

Times ==
    {i * TimeStep : i \in 0..MaxTick}
    \cup Boundaries \cup {b - 1 : b \in Boundaries}

-----------------------------------------------------------------------------
(* The effect *)

NoFrame == [t |-> 0 - 1, phase |-> "none", width |-> 0, height |-> 0, calls |-> <<>>]

Init ==
    /\ mounted = FALSE
    /\ ctx = FALSE
    /\ canvas = 0
    /\ children = {}
    /\ width = 0
    /\ height = 0
    /\ canvasW = 0
    /\ canvasH = 0
    /\ styleW = 0
    /\ styleH = 0
    /\ transform = 4
    /\ devicePixelRatio = 4
    /\ observing = FALSE
    /\ pending = {}
    /\ rafRef = 0
    /\ nextHandle = 1
    /\ frame = NoFrame
    /\ error = FALSE

\* a variant of Dpr without the cap
DprUncapped(ratio) == IF ratio = 0 THEN 4 ELSE ratio

\* const dpr = Math.min(window.devicePixelRatio || 1, 2), in quarters
Dpr(ratio) == Min(IF ratio = 0 THEN 4 ELSE ratio, 8)

\* resize() for a container rectangle rect and a device pixel ratio; setting
\* the transform on a null context throws
Resize(rect, ratio) ==
    LET dpr == Dpr(ratio)
        w == Max(1, rect[1] \div 2)
        h == Max(1, rect[2] \div 2)
    IN  /\ devicePixelRatio' = ratio
        /\ width' = w
        /\ height' = h
        /\ canvasW' = (w * dpr) \div 4
        /\ canvasH' = (h * dpr) \div 4
        /\ styleW' = w
        /\ styleH' = h
        /\ IF ctx' THEN transform' = dpr /\ error' = error
                   ELSE transform' = transform /\ error' = TRUE

\* document.createElement('canvas'); parent.appendChild(canvas): a new
\* element with the default 300 x 150 backing store
CreateCanvas ==
    /\ canvas' = canvas + 1
    /\ children' = children \cup {canvas + 1}

\* the effect when getContext('2d') returns a context
SetupWithContext(rect, ratio) ==
    /\ ctx' = TRUE
    /\ Resize(rect, ratio)
    /\ observing' = TRUE
    /\ rafRef' = nextHandle
    /\ pending' = pending \cup {nextHandle}
    /\ nextHandle' = nextHandle + 1

\* a variant of the effect that goes on after a null context
SetupIgnoringNull(rect, ratio) ==
    /\ ctx' = FALSE
    /\ Resize(rect, ratio)
    /\ observing' = TRUE
    /\ rafRef' = nextHandle
    /\ pending' = pending \cup {nextHandle}
    /\ nextHandle' = nextHandle + 1

\* the effect when getContext('2d') returns null: `if (!ctx) return;`
SetupWithoutContext(rect, ratio) ==
    /\ ctx' = FALSE
    /\ canvasW' = 300
    /\ canvasH' = 150
    /\ styleW' = 0
    /\ styleH' = 0
    /\ UNCHANGED <<width, height, transform, devicePixelRatio, observing,
                   rafRef, pending, nextHandle, error>>

\* useEffect(() => { ... }, []) runs
Mount(ok, rect, ratio) ==
    /\ ~mounted
    /\ ~error
    /\ canvas < MaxMounts
    /\ nextHandle <= MaxHandle
    /\ mounted' = TRUE
    /\ CreateCanvas
    /\ IF ok THEN SetupWithContext(rect, ratio) ELSE SetupWithoutContext(rect, ratio)
    /\ UNCHANGED frame

\* the ResizeObserver delivers a notification: resize()
OnResize(rect, ratio) ==
    /\ observing
    /\ ~error
    /\ UNCHANGED <<mounted, ctx, canvas, children, observing, pending, rafRef,
                   nextHandle, frame>>
    /\ Resize(rect, ratio)

\* what one renderFrame(timeMs) call paints
Paint(timeMs) ==
    LET tNorm == TNorm(timeMs)
    IN  [t |-> tNorm,
         phase |-> Phase(tNorm),
         width |-> width,
         height |-> height,
         calls |-> <<Call("clearRect", <<0, 0, width, height>>),
                     Call("drawSkyAndSun", <<tNorm>>),
                     Call("drawMountains", <<>>),
                     Call("drawWater", <<tNorm>>)>>
                   \o DrawFishAndEagle(width, height, tNorm)]

\* a variant of renderFrame that does not request the next frame
RenderFrameOnce(h, timeMs) ==
    /\ h \in pending
    /\ ~error
    /\ nextHandle <= MaxHandle
    /\ UNCHANGED <<mounted, ctx, canvas, children, observing, error>>
    /\ UNCHANGED surface
    /\ UNCHANGED <<rafRef, nextHandle>>
    /\ pending' = pending \ {h}
    /\ frame' = Paint(timeMs)

\* the browser runs the animation-frame callback with handle h: renderFrame
RenderFrame(h, timeMs) ==
    /\ h \in pending
    /\ ~error
    /\ nextHandle <= MaxHandle
    /\ UNCHANGED <<mounted, ctx, canvas, children, observing, error>>
    /\ UNCHANGED surface
    /\ rafRef' = nextHandle
    /\ pending' = (pending \ {h}) \cup {nextHandle}
    /\ nextHandle' = nextHandle + 1
    /\ frame' = Paint(timeMs)

\* a variant of the cleanup that does not cancel the pending frame
CleanupNoCancel ==
    /\ pending' = pending
    /\ observing' = FALSE
    /\ children' = children \ {canvas}

\* the function the effect returns: cancelAnimationFrame, disconnect, removeChild
Cleanup ==
    /\ pending' = IF rafRef # 0 THEN pending \ {rafRef} ELSE pending
    /\ observing' = FALSE
    /\ children' = children \ {canvas}

\* the component unmounts: React calls the effect's cleanup, if it returned one
Unmount ==
    /\ mounted
    /\ mounted' = FALSE
    /\ IF ctx THEN Cleanup ELSE UNCHANGED <<pending, observing, children>>
    /\ UNCHANGED <<ctx, canvas, rafRef, nextHandle, frame, error>>
    /\ UNCHANGED surface

\* one step of the program, frame timestamps drawn from T
NextAt(T) ==
    \/ \E ok \in BOOLEAN, rect \in Rects, ratio \in Ratios : Mount(ok, rect, ratio)
    \/ \E rect \in Rects, ratio \in Ratios : OnResize(rect, ratio)
    \/ \E h \in pending, timeMs \in T : RenderFrame(h, timeMs)
    \/ Unmount

Next == NextAt(Times)

Spec == Init /\ [][Next]_vars

\* the display keeps refreshing: a pending frame callback is eventually run.
\* Frames are taken at the start of each phase (resetEnd wraps to the start
\* of rise) and at the end of the splash window, which covers every
\* combination of fish and eagle visibility.
FairSpec ==
    /\ Init
    /\ [][NextAt(Boundaries)]_vars
    /\ WF_vars(\E h \in pending, timeMs \in Boundaries : RenderFrame(h, timeMs))

-----------------------------------------------------------------------------
(* Properties *)

Painted == frame # NoFrame

\* the arguments of the calls to op made by the latest frame
ArgsOf(op) == {frame.calls[i].args : i \in {j \in DOMAIN frame.calls : frame.calls[j].op = op}}

Called(op) == ArgsOf(op) # {}

\* lo <= t < hi for normalized time t and bounds given in hundredths
Within(t, lo, hi) == lo * LoopMs <= 100 * t /\ 100 * t < hi * LoopMs

\* C1, as stated: the fish drawn by a frame at the last instant of the loop
\* (end of the reset phase) has the position, scale and rotation of the fish
\* drawn at t = 0 on the same surface.
LoopSeamContinuity ==
    (Painted /\ frame.t = LoopMs - 1) =>
        LET f == FishPose(frame.width, frame.height, 0)
        IN  ArgsOf("drawFish") = {<<f.x, f.y, f.scaleX, f.scaleY, f.rotation>>}

\* the phase table as the specification gives it: name, lower and upper bound
\* in hundredths of the loop
PhaseTable ==
    {<<"rise", 0, 14>>, <<"hover", 14, 30>>, <<"swoop", 30, 50>>,
     <<"struggle", 50, 66>>, <<"fall", 66, 80>>, <<"submerge", 80, 90>>,
     <<"reset", 90, 100>>}

\* C2: for every frame, t is in [0,1), exactly one interval of the phase table
\* contains t, and the branch that ran is the one of that interval; a t on a
\* boundary belongs to the later phase.
PhaseCoverage ==
    Painted =>
        /\ 0 <= frame.t /\ frame.t < LoopMs
        /\ Cardinality({p \in PhaseTable : Within(frame.t, p[2], p[3])}) = 1
        /\ \A p \in PhaseTable : Within(frame.t, p[2], p[3]) <=> frame.phase = p[1]

PhaseCoverageWitness ==
    Painted /\ 2 * frame.t = LoopMs /\ frame.phase = "struggle"

\* C3, as stated: the eagle is drawn exactly when 0.30 <= t < 0.90.
EagleVisibilityAsClaimed ==
    Painted => (Called("drawEagle") <=> Within(frame.t, 30, 90))

\* C3, amended: the eagle is drawn exactly when 0.30 <= t < 0.80 (swoop,
\* struggle and fall); it is not drawn in rise, hover, submerge and reset.
EagleVisibility ==
    Painted => (Called("drawEagle") <=> Within(frame.t, 30, 80))

EagleVisibilityWitness ==
    Painted /\ Within(frame.t, 80, 90) /\ ~Called("drawEagle")

\* local progress k of submerge is at least 0.15: (t - 0.80) / 0.10 >= 0.15
SplashOver(t) == 1000 * t >= 815 * LoopMs

\* C4: the fish and its ripples are drawn in every frame except those of the
\* submerge phase whose local progress is at least 0.15.
FishVisibility ==
    Painted =>
        /\ Called("drawFish") <=> ~(Within(frame.t, 80, 90) /\ SplashOver(frame.t))
        /\ Called("drawFishRipples") <=> Called("drawFish")

FishVisibilityWitness ==
    /\ Painted
    /\ Within(frame.t, 80, 90)
    /\ SplashOver(frame.t)
    /\ ~Called("drawFish")
    /\ ~Called("drawFishRipples")

\* C5: a pending frame callback is always the one rafRef names; once the
\* cleanup has run no callback is pending and the observer is disconnected,
\* and no frame is painted and no resize handled while unmounted.
CancellationOnUnmount ==
    /\ [](/\ pending # {} => pending = {rafRef}
          /\ ~mounted => (pending = {} /\ ~observing))
    /\ [][~mounted => frame' = frame]_vars
    /\ [][(~mounted /\ ~mounted') => surface' = surface]_vars

CancellationWitness ==
    ~mounted /\ ctx /\ Painted /\ rafRef > 1 /\ pending = {} /\ children = {}

\* C6, as stated: while mounted the container holds exactly the canvas the
\* mount created, and after teardown it holds none.
SurfaceOwnership ==
    IF mounted THEN children = {canvas} ELSE children = {}

\* C7: in a mount whose context is null nothing is set up: no frame callback
\* is pending, no observer is registered, no error is raised, and the step
\* into or within such a mount paints nothing, resizes nothing (the new canvas
\* keeps its default 300 x 150 backing store) and requests no frame.
NullContextAborts ==
    /\ []((mounted /\ ~ctx) => (pending = {} /\ ~observing /\ ~error))
    /\ [][(mounted' /\ ~ctx') =>
            /\ frame' = frame
            /\ <<width, height, transform, devicePixelRatio>>'
                 = <<width, height, transform, devicePixelRatio>>
            /\ <<canvasW, canvasH, styleW, styleH>>' = <<300, 150, 0, 0>>
            /\ nextHandle' = nextHandle
            /\ rafRef' = rafRef]_vars

NullContextWitness ==
    mounted /\ ~ctx /\ canvas > 1 /\ Painted /\ canvasW = 300

\* C8, as stated: after resize() the backing store is the logical size times
\* min(device scale factor, 2), for every defined device scale factor.
BackingStoreAsClaimed ==
    (ctx /\ devicePixelRatio # 0) =>
        /\ width >= 1 /\ height >= 1
        /\ 4 * canvasW = width * (IF devicePixelRatio < 8 THEN devicePixelRatio ELSE 8)
        /\ 4 * canvasH = height * (IF devicePixelRatio < 8 THEN devicePixelRatio ELSE 8)

\* C8, amended: after resize() the backing store is the floor of the logical
\* size times min(f, 2), where f is the device scale factor, or 1 if that is
\* zero or undefined; the logical width and height are at least 1.
BackingStore ==
    ctx =>
        LET f == IF devicePixelRatio = 0 THEN 4 ELSE devicePixelRatio
            c == IF f < 8 THEN f ELSE 8
        IN  /\ width >= 1 /\ height >= 1
            /\ canvasW = (width * c) \div 4
            /\ canvasH = (height * c) \div 4

BackingStoreWitness ==
    ctx /\ devicePixelRatio = 6 /\ width = 361 /\ canvasW = 541

\* C9, as stated: at twice the surface size the fish position, the eagle
\* position, the ripple-stroke centre lines and the fish-ripple radii are all
\* twice what they are at the original size.
ScaleInvarianceAsClaimed ==
    Painted =>
        LET w == frame.width
            h == frame.height
            t == frame.t
        IN  /\ FishPose(2 * w, 2 * h, t).x = 2 * FishPose(w, h, t).x
            /\ FishPose(2 * w, 2 * h, t).y = 2 * FishPose(w, h, t).y
            /\ EaglePose(2 * w, 2 * h, t).x = 2 * EaglePose(w, h, t).x
            /\ EaglePose(2 * w, 2 * h, t).y = 2 * EaglePose(w, h, t).y
            /\ \A i \in 0..19 : RippleCentre(2 * h, i) = 2 * RippleCentre(h, i)
            /\ \A i \in 0..3 :
                 FishRippleR(RipplePhase(t), i) = 2 * FishRippleR(RipplePhase(t), i)

\* C9, amended: what is computed as a fraction of the width or height alone
\* doubles: waterTop, the eagle's x in every phase and its y in swoop, the
\* fish's x outside struggle and fall, and the base sizes of the fish and the
\* eagle.  What carries a fixed pixel term does not scale: the fish's start
\* height is waterTop - 10 and ripple stroke i is centred at waterTop + 12 i at
\* every size.
ScaleInvarianceProportional ==
    Painted =>
        LET w == frame.width
            h == frame.height
            t == frame.t
        IN  /\ WaterTop(2 * h) = 2 * WaterTop(h)
            /\ EaglePose(2 * w, 2 * h, t).x = 2 * EaglePose(w, h, t).x
            /\ frame.phase = "swoop" =>
                 EaglePose(2 * w, 2 * h, t).y = 2 * EaglePose(w, h, t).y
            /\ frame.phase \notin {"struggle", "fall"} =>
                 FishPose(2 * w, 2 * h, t).x = 2 * FishPose(w, h, t).x
            /\ bodyW(2 * w, 2 * h) = 2 * bodyW(w, h)
            /\ eagleSize(2 * w, 2 * h) = 2 * eagleSize(w, h)
            /\ fishStartY(2 * h) = 2 * WaterTop(h) - 10 * U
            /\ \A i \in 0..19 : RippleCentre(2 * h, i) = 2 * WaterTop(h) + i * 12 * U

ScaleInvarianceWitness ==
    Painted /\ frame.phase = "swoop" /\ frame.width = 361 /\ Called("drawEagle")

\* the operations of the calls of a frame, in order
Ops(f) == [i \in DOMAIN f.calls |-> f.calls[i].op]

\* C10: with a usable context and while mounted exactly one frame callback is
\* pending, the one rafRef names; a frame clears, then paints sky, mountains,
\* water and characters in that order at the current logical size, leaves the
\* surface as it is and replaces its own callback by one new one; and under a
\* fair display refresh the loop never stalls: the component does not stay
\* mounted with frames left to request (nextHandle <= MaxHandle) for ever.
FrameDriver ==
    /\ []((mounted /\ ctx) => (Cardinality(pending) = 1 /\ pending = {rafRef}))
    /\ [][(mounted /\ mounted' /\ (frame' # frame \/ nextHandle' # nextHandle)) =>
            /\ Len(frame'.calls) >= 4
            /\ SubSeq(Ops(frame'), 1, 4)
                 = <<"clearRect", "drawSkyAndSun", "drawMountains", "drawWater">>
            /\ \A i \in 5..Len(frame'.calls) :
                 frame'.calls[i].op \in {"drawFish", "drawFishRipples", "drawEagle"}
            /\ frame'.calls[1].args = <<0, 0, width, height>>
            /\ frame'.width = width /\ frame'.height = height
            /\ surface' = surface
            /\ Cardinality(pending') = 1
            /\ pending' \cap pending = {}
            /\ pending' = {rafRef'}]_vars
    /\ []<>(~(mounted /\ ctx) \/ nextHandle > MaxHandle)

FrameDriverWitness ==
    mounted /\ ctx /\ Painted /\ rafRef > 2 /\ pending = {rafRef}

====
